-------------------------- MODULE Spec2Model --------------------------
(* A model of the Tody REST facade (src/server): the request handlers of   *)
(* the tasks, categories and inbox routers over the external store, and    *)
(* the mutation normalizer _auto_complete_fields.                          *)
(*                                                                         *)
(* Encoding of Python values.  A JSON / Python value that may be None is   *)
(* kept as a tuple: None is <<>> and a value v is <<v>>.  A dict is a      *)
(* function whose DOMAIN is the set of keys present, so "key absent",      *)
(* "key present with None" and "key present with a value" are three        *)
(* different things, as model_dump(exclude_unset=True) makes them.         *)
(* A datetime is a record [day, tod, us] (day number, second of the day,   *)
(* microsecond); the string isoformat() returns is the tuple of its        *)
(* components, the fraction left out when the microsecond is 0, and the    *)
(* empty string is the empty tuple.                                        *)
EXTENDS Integers, Sequences, FiniteSets, TLC

VARIABLES
    tasks,       \* the rows of table "tasks"
    categories,  \* the rows of table "categories"
    inbox,       \* the rows of table "inbox_tasks"
    now,         \* what datetime.utcnow() returns
    nops,        \* requests served so far
    uuids,       \* identifiers generated so far (uuid4 / the store's default)
    req,         \* the request served last
    resp,        \* its response
    norm,        \* a payload under _auto_complete_fields (SpecNormalizer)
    race         \* the request served store call by store call (SpecDeleteRace, SpecConvert)

vars == <<tasks, categories, inbox, now, nops, uuids, req, resp, norm, race>>

-----------------------------------------------------------------------------
(* Bounds of the model.                                                    *)

\* Requests served in one behaviour of a specification of a whole router.
MaxOps == 1
\* Requests served in one behaviour of a specification of a few handlers.
MaxSeq == 2
\* Days the clock ranges over.
MaxDay == 2
\* Items of a batch request (beside the batches built at the size limits).
MaxBatch == 2
\* Identifiers of a reorder request.
MaxOrder == 3
\* Calendar days a task history spans (analytics).
MaxHistory == 4

-----------------------------------------------------------------------------
(* Python values.                                                          *)

None == <<>>
Some(v) == <<v>>
EmptyStr == <<>>

\* dict.get(key): None when the key is absent.
Get(data, k) == IF k \in DOMAIN data THEN data[k] ELSE None

\* data[key] = v
Put(data, k, v) == [x \in (DOMAIN data) \cup {k} |-> IF x = k THEN v ELSE data[x]]

\* Python truth of an Optional[str]: None and "" are falsy.
TruthyStr(v) == v # None /\ v # Some(EmptyStr)

\* The empty dict.
EmptyDict == [x \in {} |-> None]

-----------------------------------------------------------------------------
(* Time.                                                                   *)

EndOfDay == 86399

\* a <= b on datetimes
NotAfter(a, b) ==
    \/ a.day < b.day
    \/ a.day = b.day /\ a.tod < b.tod
    \/ a.day = b.day /\ a.tod = b.tod /\ a.us <= b.us

\* datetime.isoformat(): "YYYY-MM-DDTHH:MM:SS" and ".ffffff" only when the
\* microsecond is not 0.
IsoFormat(dt) == IF dt.us = 0 THEN <<dt.day, dt.tod>> ELSE <<dt.day, dt.tod, dt.us>>

-----------------------------------------------------------------------------
(* The mutation normalizer, tasks.py _auto_complete_fields.  t1 and t2 are *)
(* the two readings of datetime.utcnow() (lines 179 and 184).              *)

\* A slip: the stamp is written whenever the flag is true, also over a
\* timestamp the payload supplies.
AutoCompleteFieldsRestamp(data, t1, t2) ==
    LET d1 == IF Get(data, "is_completed") = Some(TRUE)
              THEN Put(data, "completed_at", Some(IsoFormat(t1))) ELSE data
        d2 == IF Get(d1, "is_completed") = Some(FALSE)
              THEN Put(d1, "completed_at", None) ELSE d1
        d3 == IF Get(d2, "is_archived") = Some(TRUE)
              THEN Put(d2, "archived_at", Some(IsoFormat(t2))) ELSE d2
        d4 == IF Get(d3, "is_archived") = Some(FALSE)
              THEN Put(d3, "archived_at", None) ELSE d3
    IN  d4

\* A slip: a false flag clears the timestamp only when none is supplied.
AutoCompleteFieldsKeep(data, t1, t2) ==
    LET d1 == IF Get(data, "is_completed") = Some(TRUE) /\ ~TruthyStr(Get(data, "completed_at"))
              THEN Put(data, "completed_at", Some(IsoFormat(t1))) ELSE data
        d2 == IF Get(d1, "is_completed") = Some(FALSE) /\ ~TruthyStr(Get(d1, "completed_at"))
              THEN Put(d1, "completed_at", None) ELSE d1
        d3 == IF Get(d2, "is_archived") = Some(TRUE) /\ ~TruthyStr(Get(d2, "archived_at"))
              THEN Put(d2, "archived_at", Some(IsoFormat(t2))) ELSE d2
        d4 == IF Get(d3, "is_archived") = Some(FALSE) /\ ~TruthyStr(Get(d3, "archived_at"))
              THEN Put(d3, "archived_at", None) ELSE d3
    IN  d4

AutoCompleteFields(data, t1, t2) ==
    LET d1 == IF Get(data, "is_completed") = Some(TRUE) /\ ~TruthyStr(Get(data, "completed_at"))
              THEN Put(data, "completed_at", Some(IsoFormat(t1))) ELSE data
        d2 == IF Get(d1, "is_completed") = Some(FALSE)
              THEN Put(d1, "completed_at", None) ELSE d1
        d3 == IF Get(d2, "is_archived") = Some(TRUE) /\ ~TruthyStr(Get(d2, "archived_at"))
              THEN Put(d2, "archived_at", Some(IsoFormat(t2))) ELSE d2
        d4 == IF Get(d3, "is_archived") = Some(FALSE)
              THEN Put(d3, "archived_at", None) ELSE d3
    IN  d4

-----------------------------------------------------------------------------
(* Payloads: the dicts model_dump(exclude_unset=True) can produce, over    *)
(* the keys the model keeps.                                               *)

\* The payloads of P, and each extended with key k set to a value of V.
WithKey(P, k, V) == P \cup { Put(p, k, v) : p \in P, v \in V }

OptBool == {None, Some(TRUE), Some(FALSE)}

\* Timestamps a client sends: null, the empty string, an ISO string.
ClientStamps == {None, Some(EmptyStr), Some(IsoFormat([day |-> 1, tod |-> 0, us |-> 0]))}

\* Every combination of supplied / absent / null flags and timestamps, with
\* and without another field beside them.
NormPayloads ==
    WithKey(WithKey(WithKey(WithKey(WithKey({EmptyDict},
        "is_completed", OptBool),
        "completed_at", ClientStamps),
        "is_archived", OptBool),
        "archived_at", ClientStamps),
        "title", {Some("a")})

-----------------------------------------------------------------------------
(* Requests and responses.                                                 *)

NoReq == [op |-> "none", user |-> "", id |-> 0, ids |-> <<>>, n |-> 0, data |-> EmptyDict]

\* status: the HTTP status code; detail: the error's detail string; rows: the
\* rows of the response body; order: their identifiers in the order returned,
\* for the operations that order their result.
NoResp == [status |-> 0, detail |-> "", rows |-> {}, order |-> <<>>]

Epoch == [day |-> 1, tod |-> 0, us |-> 0]

NoNorm == [stage |-> 0, data |-> EmptyDict, t1 |-> Epoch, t2 |-> Epoch, once |-> EmptyDict,
           t3 |-> Epoch, t4 |-> Epoch, twice |-> EmptyDict]

NoRace == [pc |-> "idle", user |-> "", id |-> 0, existing |-> {}, status |-> 0,
           detail |-> "", data |-> {}, body |-> EmptyDict, first |-> <<>>]

-----------------------------------------------------------------------------
(* The store.  A table is a set of rows, a row a record of its columns;    *)
(* id and user_id are never null and are kept bare, every other column is  *)
(* kept as None / Some(v).  The client runs with the service-role key      *)
(* (db.py), so the store applies no row-level security: a query sees the   *)
(* rows its own filters select.                                            *)

Users == {"ua", "ub"}

\* The columns of "tasks" the handlers read or derive, with the value a row
\* gets for a column the insert leaves out (the defaults TaskCreate declares).
\* description, category_id, is_recurring, recurring_frequency, depth,
\* created_hour, revived_at, started_at and created_at are passed through
\* by every handler the way title is, and are left out.
TaskDefaults ==
    [id |-> 0, user_id |-> "", title |-> None, priority |-> Some("none"),
     energy_level |-> Some("medium"), estimated_minutes |-> None,
     actual_minutes |-> None, parent_id |-> None,
     is_completed |-> Some(FALSE), completed_at |-> None,
     is_archived |-> Some(FALSE), archived_at |-> None,
     defer_count |-> Some(0), deadline |-> None,
     overdue_start_date |-> None, updated_at |-> None]

\* The columns of "categories" (icon and color are passed through like name).
CategoryDefaults ==
    [id |-> 0, user_id |-> "", name |-> None, sort_order |-> Some(0),
     is_default |-> Some(FALSE)]

\* The columns of "inbox_tasks".
InboxDefaults ==
    [id |-> 0, user_id |-> "", raw_text |-> None, captured_at |-> None]

\* A slip: the columns the payload leaves out are reset to null.
MergeOverwrite(row, data) ==
    [k \in DOMAIN row |-> IF k \in DOMAIN data THEN data[k]
                          ELSE IF k \in {"id", "user_id"} THEN row[k] ELSE None]

\* The row after SET col = value for every key of data.
Merge(row, data) == [k \in DOMAIN row |-> IF k \in DOMAIN data THEN data[k] ELSE row[k]]

\* .eq("id", id).eq("user_id", u)
Match(table, id, u) == { r \in table : r.id = id /\ r.user_id = u }

\* .update(data) on the rows of hit
UpdateRows(table, hit, data) == { IF r \in hit THEN Merge(r, data) ELSE r : r \in table }

Range(seq) == { seq[i] : i \in 1..Len(seq) }

\* .upsert(rows, on_conflict="id"): INSERT ... ON CONFLICT (id) DO UPDATE SET
\* every column of the payload.  The conflict is on the identifier alone.
Upsert(table, dicts, defaults) ==
    LET ds == Range(dicts)
        named == { d["id"] : d \in ds }
        old(d) == { r \in table : r.id = d["id"] }
    IN  { r \in table : r.id \notin named }
        \cup { Merge(IF old(d) = {} THEN defaults ELSE CHOOSE r \in old(d) : TRUE, d) : d \in ds }

\* The rows an upsert returns.
Upserted(table, dicts) ==
    LET named == { dicts[i]["id"] : i \in 1..Len(dicts) }
    IN  { r \in table : r.id \in named }

\* One statement cannot affect the same row twice: a batch that names an
\* identifier twice makes the store raise, and nothing is written.
UpsertRaises(dicts) == Cardinality({ dicts[i]["id"] : i \in 1..Len(dicts) }) < Len(dicts)

\* uuid.uuid4() and the store's default identifier: never one seen before.
Uuid4(n) == 100 + n

\* The table after DELETE of the rows gone.  tasks.parent_id references
\* tasks(id); whether the reference is declared ON DELETE SET NULL is the
\* schema's business (the comment at tasks.py:345 says so), so both outcomes
\* are kept: fk says whether references to the deleted rows are nulled.
DeleteRows(table, gone, fk) ==
    LET ids == { r.id : r \in gone }
    IN  { IF fk /\ "parent_id" \in DOMAIN r /\ r.parent_id # None /\ r.parent_id[1] \in ids
          THEN [r EXCEPT !.parent_id = None] ELSE r : r \in table \ gone }

\* Time passes between two requests.
Later(t) == [t EXCEPT !.us = @ + 1]

Resp(status, detail, rows) == [status |-> status, detail |-> detail, rows |-> rows, order |-> <<>>]

\* A request has been served: it is recorded, and the clock moves.
Served(r) ==
    /\ req' = r
    /\ nops' = nops + 1
    /\ now' = Later(now)

-----------------------------------------------------------------------------
(* The tasks router (routers/tasks.py).  Every handler is one action: it   *)
(* takes the request's inputs, makes its store calls and leaves the        *)
(* response in resp.  Both clock readings of a request return now.         *)

MaxTaskBatch == 200

\* A slip: a list of exactly the limit is refused too.
TooManyOrEqual(n, limit) == n >= limit

\* if len(tasks_list) > 200 (and the like in the other batch handlers)
TooMany(n, limit) == n > limit

\* The dict of a TaskCreate item with its id resolved and the owner stamped.
TaskRowDict(data, u, ident) == Put(Put(data, "user_id", u), "id", ident)

\* Number of items among the first i that carry no identifier.
Unnamed(items, i) == Cardinality({ j \in 1..i : Get(items[j], "id") = None })

\* batch_upsert_tasks, lines 299-307: the rows built from the items.
TaskBatchRows(items, u, t) ==
    [i \in 1..Len(items) |->
        LET data == AutoCompleteFields(items[i], t, t)
            ident == IF Get(data, "id") = None
                     THEN Uuid4(uuids + Unnamed(items, i)) ELSE data["id"][1]
        IN  TaskRowDict(data, u, ident)]

\* POST /tasks/batch
BatchUpsertTasks(u, items) ==
    /\ LET rows == TaskBatchRows(items, u, now)
           r == [NoReq EXCEPT !.op = "batch_upsert_tasks", !.user = u, !.n = Len(items), !.data = items,
                              !.ids = [i \in 1..Len(items) |-> Get(items[i], "id")]]
       IN  /\ Served(r)
           /\ IF TooMany(Len(items), MaxTaskBatch)
              THEN /\ resp' = Resp(400, "Max 200 tasks per batch", {})
                   /\ UNCHANGED <<tasks, uuids>>
              ELSE IF Len(rows) = 0
              THEN /\ resp' = Resp(200, "", {})
                   /\ UNCHANGED <<tasks, uuids>>
              ELSE IF UpsertRaises(rows)
              THEN /\ resp' = Resp(500, "Internal server error", {})
                   /\ uuids' = uuids + Unnamed(items, Len(items))
                   /\ UNCHANGED tasks
              ELSE /\ tasks' = Upsert(tasks, rows, TaskDefaults)
                   /\ resp' = Resp(200, "", Upserted(Upsert(tasks, rows, TaskDefaults), rows))
                   /\ uuids' = uuids + Unnamed(items, Len(items))
    /\ UNCHANGED <<categories, inbox, norm, race>>

\* {k: v for k, v in data.items() if v is not None}
DropNone(data) == [k \in { x \in DOMAIN data : data[x] # None } |-> data[k]]

\* POST /tasks
CreateTask(u, body) ==
    /\ LET data == DropNone(AutoCompleteFields(body, now, now))
           ident == IF "id" \in DOMAIN data THEN data["id"][1] ELSE Uuid4(uuids + 1)
           row == Merge(TaskDefaults, TaskRowDict(data, u, ident))
       IN  /\ Served([NoReq EXCEPT !.op = "create_task", !.user = u, !.data = body])
           /\ IF \E x \in tasks : x.id = ident
              THEN \* duplicate key: the store raises
                   /\ resp' = Resp(500, "Internal server error", {})
                   /\ UNCHANGED <<tasks, uuids>>
              ELSE /\ tasks' = tasks \cup {row}
                   /\ resp' = Resp(201, "", {row})
                   /\ uuids' = IF "id" \in DOMAIN data THEN uuids ELSE uuids + 1
    /\ UNCHANGED <<categories, inbox, norm, race>>

\* GET /tasks/{task_id}
GetTask(u, id) ==
    /\ Served([NoReq EXCEPT !.op = "get_task", !.user = u, !.id = id])
    /\ resp' = IF Match(tasks, id, u) = {}
               THEN Resp(404, "Task not found", {})
               ELSE Resp(200, "", Match(tasks, id, u))
    /\ UNCHANGED <<tasks, categories, inbox, uuids, norm, race>>

\* PATCH /tasks/{task_id}
UpdateTask(u, id, body) ==
    /\ Served([NoReq EXCEPT !.op = "update_task", !.user = u, !.id = id, !.data = body])
    /\ IF body = EmptyDict
       THEN /\ resp' = Resp(400, "No fields to update", {})
            /\ UNCHANGED tasks
       ELSE LET data == AutoCompleteFields(body, now, now)
                hit == Match(tasks, id, u)
            IN  /\ tasks' = UpdateRows(tasks, hit, data)
                /\ resp' = IF hit = {}
                           THEN Resp(404, "Task not found", {})
                           ELSE Resp(200, "", Match(UpdateRows(tasks, hit, data), id, u))
    /\ UNCHANGED <<categories, inbox, uuids, norm, race>>

\* A slip: the cascade follows the parent references down to the leaves.
RECURSIVE DescendantsDeep(_, _, _)
DescendantsDeep(table, ids, u) ==
    LET kids == { r \in table : r.user_id = u /\ r.parent_id # None /\ r.parent_id[1] \in ids }
        more == { r.id : r \in kids } \ ids
    IN  IF more = {} THEN kids ELSE kids \cup DescendantsDeep(table, ids \cup more, u)

ChildrenOfDeep(table, id, u) == DescendantsDeep(table, {id}, u)

\* .eq("parent_id", task_id).eq("user_id", user_id)
ChildrenOf(table, id, u) == { r \in table : r.parent_id = Some(id) /\ r.user_id = u }

\* DELETE /tasks/{task_id}
DeleteTask(u, id) ==
    /\ Served([NoReq EXCEPT !.op = "delete_task", !.user = u, !.id = id])
    /\ \E fk \in BOOLEAN :
        LET t1 == DeleteRows(tasks, ChildrenOf(tasks, id, u), fk)
            hit == Match(t1, id, u)
        IN  /\ tasks' = DeleteRows(t1, hit, fk)
            /\ resp' = IF hit = {}
                       THEN Resp(404, "Task not found", {})
                       ELSE Resp(204, "", {})
    /\ UNCHANGED <<categories, inbox, uuids, norm, race>>

\* DELETE /tasks?task_ids=...
BatchDeleteTasks(u, ids) ==
    /\ Served([NoReq EXCEPT !.op = "batch_delete_tasks", !.user = u, !.ids = ids, !.n = Len(ids)])
    /\ IF TooMany(Len(ids), MaxTaskBatch)
       THEN /\ resp' = Resp(400, "Max 200 task IDs per batch delete", {})
            /\ UNCHANGED tasks
       ELSE /\ \E fk \in BOOLEAN :
                tasks' = DeleteRows(tasks, { r \in tasks : r.id \in Range(ids) /\ r.user_id = u }, fk)
            /\ resp' = Resp(204, "", {})
    /\ UNCHANGED <<categories, inbox, uuids, norm, race>>

\* GET /tasks/{task_id}/children
GetChildren(u, id) ==
    /\ Served([NoReq EXCEPT !.op = "get_children", !.user = u, !.id = id])
    /\ resp' = Resp(200, "", ChildrenOf(tasks, id, u))
    /\ UNCHANGED <<tasks, categories, inbox, uuids, norm, race>>

\* An update by identifier and owner, answered 404 when it matched nothing.
UpdateOwned(u, id, data) ==
    LET hit == Match(tasks, id, u)
    IN  /\ tasks' = UpdateRows(tasks, hit, data)
        /\ resp' = IF hit = {}
                   THEN Resp(404, "Task not found", {})
                   ELSE Resp(200, "", Match(UpdateRows(tasks, hit, data), id, u))

\* POST /tasks/{task_id}/complete
CompleteTask(u, id, minutes) ==
    /\ Served([NoReq EXCEPT !.op = "complete_task", !.user = u, !.id = id,
                            !.data = [actual_minutes |-> minutes]])
    /\ LET stamp == Some(IsoFormat(now))
           base == [is_completed |-> Some(TRUE), completed_at |-> stamp, updated_at |-> stamp]
       IN  UpdateOwned(u, id, IF minutes # None THEN Put(base, "actual_minutes", minutes) ELSE base)
    /\ UNCHANGED <<categories, inbox, uuids, norm, race>>

\* POST /tasks/{task_id}/uncomplete
UncompleteTask(u, id) ==
    /\ Served([NoReq EXCEPT !.op = "uncomplete_task", !.user = u, !.id = id])
    /\ UpdateOwned(u, id, [is_completed |-> Some(FALSE), completed_at |-> None,
                           actual_minutes |-> None, updated_at |-> Some(IsoFormat(now))])
    /\ UNCHANGED <<categories, inbox, uuids, norm, race>>

\* POST /tasks/{task_id}/archive
ArchiveTask(u, id) ==
    /\ Served([NoReq EXCEPT !.op = "archive_task", !.user = u, !.id = id])
    /\ UpdateOwned(u, id, [is_archived |-> Some(TRUE), archived_at |-> Some(IsoFormat(now)),
                           updated_at |-> Some(IsoFormat(now))])
    /\ UNCHANGED <<categories, inbox, uuids, norm, race>>

\* datetime.utcnow().replace(hour=23, minute=59, second=59) + timedelta(days=1):
\* the microsecond of the reading is kept.
Tomorrow(t) == [day |-> t.day + 1, tod |-> EndOfDay, us |-> t.us]

\* A slip: the count read is written back, not the count plus one.
DeferCountSame(stored) == IF stored = None \/ stored = Some(0) THEN 0 ELSE stored[1]

\* (existing.data.get("defer_count") or 0) + 1
DeferCount(stored) == (IF stored = None \/ stored = Some(0) THEN 0 ELSE stored[1]) + 1

\* POST /tasks/{task_id}/defer
DeferTask(u, id) ==
    /\ Served([NoReq EXCEPT !.op = "defer_task", !.user = u, !.id = id])
    /\ LET existing == Match(tasks, id, u)
       IN  IF existing = {}
           THEN /\ resp' = Resp(404, "Task not found", {})
                /\ UNCHANGED tasks
           ELSE LET row == CHOOSE r \in existing : TRUE
                    data == [deadline |-> Some(IsoFormat(Tomorrow(now))),
                             defer_count |-> Some(DeferCount(row.defer_count)),
                             overdue_start_date |-> None]
                IN  /\ tasks' = UpdateRows(tasks, Match(tasks, id, u), data)
                    /\ resp' = Resp(200, "", Match(UpdateRows(tasks, Match(tasks, id, u), data), id, u))
    /\ UNCHANGED <<categories, inbox, uuids, norm, race>>

-----------------------------------------------------------------------------
(* SpecTasks: the tasks router serving requests of two users.  The store   *)
(* outlives the server, so a behaviour starts from rows earlier requests   *)
(* left there: the table is what these handlers make of two batch upserts  *)
(* and one update on an empty table.                                       *)

Stamp0 == Some(IsoFormat(Epoch))

\* ua: task 1, its child 2 (completed), and 3, a child of 2 (overdue, with
\* a null defer count); ub: task 4, whose parent reference names ua's 1.
SeedTasks ==
    LET byA == TaskBatchRows(
                 << [id |-> Some(1), title |-> Some("a")],
                    [id |-> Some(2), title |-> Some("a"), parent_id |-> Some(1),
                     is_completed |-> Some(TRUE)],
                    [id |-> Some(3), title |-> Some("a"), parent_id |-> Some(2),
                     overdue_start_date |-> Stamp0, deadline |-> Stamp0] >>, "ua", Epoch)
        byB == TaskBatchRows(
                 << [id |-> Some(4), title |-> Some("a"), parent_id |-> Some(1),
                     is_archived |-> Some(TRUE), defer_count |-> Some(2)] >>, "ub", Epoch)
        s1 == Upsert(Upsert({}, byA, TaskDefaults), byB, TaskDefaults)
    IN  UpdateRows(s1, Match(s1, 3, "ua"), [defer_count |-> None])

\* The identifiers requests name: the four seeded rows and one that no row has.
TaskIds == {1, 2, 3, 4, 5}

\* TaskUpdate bodies: the completion pair in every combination, the
\* archival pair, the defer count, and fields no handler derives.
TaskPatches ==
    (WithKey(WithKey({EmptyDict}, "is_completed", {Some(TRUE), Some(FALSE)}),
             "completed_at", {None, Stamp0}))
    \cup { [is_archived |-> Some(TRUE)], [archived_at |-> Stamp0],
           [is_archived |-> Some(FALSE), archived_at |-> Stamp0],
           [defer_count |-> Some(0)], [defer_count |-> None],
           [title |-> Some("b")], [deadline |-> None] }

\* TaskCreate bodies (title is required).
TaskItems ==
    { [title |-> Some("b")],
      [id |-> Some(4), title |-> Some("b"), defer_count |-> Some(0)],
      [id |-> Some(1), title |-> Some("b"), is_completed |-> Some(TRUE)],
      [id |-> Some(5), title |-> Some("b"), completed_at |-> Stamp0] }

\* The lists of at most n elements of S.
SeqsUpTo(S, n) == UNION { [1..k -> S] : k \in 0..n }

\* Those of them that name no element twice.
DistinctSeqsUpTo(S, n) ==
    { s \in SeqsUpTo(S, n) : \A i, j \in 1..Len(s) : i # j => s[i] # s[j] }

\* The list of n copies of x.
Copies(x, n) == [i \in 1..n |-> x]

\* Batch requests: the short lists, and lists of exactly the size limit and
\* of one more (of one item: an identifier named twice makes the store raise).
TaskBatches ==
    DistinctSeqsUpTo(TaskItems, MaxBatch)
    \cup { Copies([id |-> Some(5), title |-> Some("b")], n) : n \in {MaxTaskBatch, MaxTaskBatch + 1} }

TaskIdLists ==
    (SeqsUpTo({1, 4}, MaxBatch) \ {<<>>})
    \cup { Copies(5, n) : n \in {MaxTaskBatch, MaxTaskBatch + 1} }

\* TaskCompleteBody.actual_minutes
ActualMinutes == {None, Some(30), Some(0 - 5)}

StartInstants == { Epoch, [day |-> 1, tod |-> EndOfDay, us |-> 7] }

InitTasks ==
    /\ uuids = 0 /\ nops = 0
    /\ tasks = SeedTasks /\ categories = {} /\ inbox = {}
    /\ now \in StartInstants
    /\ req = NoReq /\ resp = NoResp /\ norm = NoNorm /\ race = NoRace

NextTasks ==
    \/ \E u \in Users, body \in TaskItems : nops < MaxOps /\ CreateTask(u, body)
    \/ \E u \in Users, items \in TaskBatches : nops < MaxOps /\ BatchUpsertTasks(u, items)
    \/ \E u \in Users, id \in TaskIds : nops < MaxOps /\ GetTask(u, id)
    \/ \E u \in Users, id \in TaskIds, body \in TaskPatches : nops < MaxOps /\ UpdateTask(u, id, body)
    \/ \E u \in Users, id \in TaskIds : nops < MaxOps /\ DeleteTask(u, id)
    \/ \E u \in Users, ids \in TaskIdLists : nops < MaxOps /\ BatchDeleteTasks(u, ids)
    \/ \E u \in Users, id \in TaskIds : nops < MaxOps /\ GetChildren(u, id)
    \/ \E u \in Users, id \in TaskIds, m \in ActualMinutes : nops < MaxOps /\ CompleteTask(u, id, m)
    \/ \E u \in Users, id \in TaskIds : nops < MaxOps /\ UncompleteTask(u, id)
    \/ \E u \in Users, id \in TaskIds : nops < MaxOps /\ ArchiveTask(u, id)
    \/ \E u \in Users, id \in TaskIds : nops < MaxOps /\ DeferTask(u, id)

SpecTasks == InitTasks /\ [][NextTasks]_vars

-----------------------------------------------------------------------------
(* The categories router (routers/categories.py).                          *)

MaxCategoryBatch == 50

\* order("sort_order"): ascending, nulls last; rows with equal keys come in
\* any order.
SortOrderLeq(a, b) ==
    \/ b.sort_order = None
    \/ a.sort_order # None /\ a.sort_order[1] <= b.sort_order[1]

\* The orders in which the store may return rows sorted by sort_order: the
\* lists of their identifiers, a row that no other row precedes first.
RECURSIVE SortedBySortOrder(_)
SortedBySortOrder(rows) ==
    IF rows = {} THEN {<<>>}
    ELSE UNION { { <<r.id>> \o s : s \in SortedBySortOrder(rows \ {r}) } :
                 r \in { x \in rows : \A y \in rows : SortOrderLeq(x, y) } }

\* GET /categories
ListCategories(u) ==
    /\ Served([NoReq EXCEPT !.op = "list_categories", !.user = u])
    /\ LET mine == { r \in categories : r.user_id = u }
       IN  \E s \in SortedBySortOrder(mine) :
               resp' = [Resp(200, "", mine) EXCEPT !.order = s]
    /\ UNCHANGED <<tasks, categories, inbox, uuids, norm, race>>

\* POST /categories
CreateCategory(u, body) ==
    /\ LET named == Get(body, "id") # None
           ident == IF named THEN body["id"][1] ELSE Uuid4(uuids + 1)
           row == Merge(CategoryDefaults, TaskRowDict(body, u, ident))
       IN  /\ Served([NoReq EXCEPT !.op = "create_category", !.user = u, !.data = body])
           /\ IF \E x \in categories : x.id = ident
              THEN \* duplicate key: the store raises
                   /\ resp' = Resp(500, "Internal server error", {})
                   /\ UNCHANGED <<categories, uuids>>
              ELSE /\ categories' = categories \cup {row}
                   /\ resp' = Resp(201, "", {row})
                   /\ uuids' = IF named THEN uuids ELSE uuids + 1
    /\ UNCHANGED <<tasks, inbox, norm, race>>

\* batch_upsert_categories, lines 124-130: the rows built from the items.
CategoryBatchRows(items, u) ==
    [i \in 1..Len(items) |->
        LET ident == IF Get(items[i], "id") = None
                     THEN Uuid4(uuids + Unnamed(items, i)) ELSE items[i]["id"][1]
        IN  TaskRowDict(items[i], u, ident)]

\* POST /categories/batch
BatchUpsertCategories(u, items) ==
    /\ LET rows == CategoryBatchRows(items, u)
           r == [NoReq EXCEPT !.op = "batch_upsert_categories", !.user = u, !.n = Len(items), !.data = items,
                              !.ids = [i \in 1..Len(items) |-> Get(items[i], "id")]]
       IN  /\ Served(r)
           /\ IF TooMany(Len(items), MaxCategoryBatch)
              THEN /\ resp' = Resp(400, "Max 50 categories per batch", {})
                   /\ UNCHANGED <<categories, uuids>>
              ELSE IF Len(rows) = 0
              THEN /\ resp' = Resp(200, "", {})
                   /\ UNCHANGED <<categories, uuids>>
              ELSE IF UpsertRaises(rows)
              THEN /\ resp' = Resp(500, "Internal server error", {})
                   /\ uuids' = uuids + Unnamed(items, Len(items))
                   /\ UNCHANGED categories
              ELSE /\ categories' = Upsert(categories, rows, CategoryDefaults)
                   /\ resp' = Resp(200, "", Upserted(Upsert(categories, rows, CategoryDefaults), rows))
                   /\ uuids' = uuids + Unnamed(items, Len(items))
    /\ UNCHANGED <<tasks, inbox, norm, race>>

\* PATCH /categories/{category_id}
UpdateCategory(u, id, body) ==
    /\ Served([NoReq EXCEPT !.op = "update_category", !.user = u, !.id = id, !.data = body])
    /\ IF body = EmptyDict
       THEN /\ resp' = Resp(400, "No fields to update", {})
            /\ UNCHANGED categories
       ELSE LET hit == Match(categories, id, u)
            IN  /\ categories' = UpdateRows(categories, hit, body)
                /\ resp' = IF hit = {}
                           THEN Resp(404, "Category not found", {})
                           ELSE Resp(200, "", Match(UpdateRows(categories, hit, body), id, u))
    /\ UNCHANGED <<tasks, inbox, uuids, norm, race>>

\* A slip: the positions are numbered from 1.
RECURSIVE ReorderedFromOne(_, _, _, _)
ReorderedFromOne(table, ids, u, n) ==
    IF n = 0 THEN table
    ELSE LET t == ReorderedFromOne(table, ids, u, n - 1)
         IN  UpdateRows(t, Match(t, ids[n], u), [sort_order |-> Some(n)])

\* reorder_categories, lines 167-168: the table after the first n updates,
\* the update for position i (from 0) writing sort_order i.
RECURSIVE Reordered(_, _, _, _)
Reordered(table, ids, u, n) ==
    IF n = 0 THEN table
    ELSE LET t == Reordered(table, ids, u, n - 1)
         IN  UpdateRows(t, Match(t, ids[n], u), [sort_order |-> Some(n - 1)])

\* POST /categories/reorder
ReorderCategories(u, ids) ==
    /\ Served([NoReq EXCEPT !.op = "reorder_categories", !.user = u, !.ids = ids, !.n = Len(ids)])
    /\ LET t == Reordered(categories, ids, u, Len(ids))
           mine == { r \in t : r.user_id = u }
       IN  /\ categories' = t
           /\ \E s \in SortedBySortOrder(mine) :
                  resp' = [Resp(200, "", mine) EXCEPT !.order = s]
    /\ UNCHANGED <<tasks, inbox, uuids, norm, race>>

\* A slip: the default flag is not looked at.
DeleteRefusedNever(existing) == FALSE

\* if existing.data.get("is_default")
DeleteRefused(existing) == \E r \in existing : r.is_default = Some(TRUE)

\* DELETE /categories/{category_id}
DeleteCategory(u, id) ==
    /\ Served([NoReq EXCEPT !.op = "delete_category", !.user = u, !.id = id])
    /\ LET existing == Match(categories, id, u)
       IN  IF existing = {}
           THEN /\ resp' = Resp(404, "Category not found", {})
                /\ UNCHANGED categories
           ELSE IF DeleteRefused(existing)
           THEN /\ resp' = Resp(400, "Cannot delete a default category", {})
                /\ UNCHANGED categories
           ELSE /\ categories' = DeleteRows(categories, Match(categories, id, u), FALSE)
                /\ resp' = Resp(204, "", {})
    /\ UNCHANGED <<tasks, inbox, uuids, norm, race>>

-----------------------------------------------------------------------------
(* The inbox router (routers/inbox.py): capture, batch upsert and delete.  *)

MaxInboxBatch == 100

\* capture_inbox lines 68-72 and batch_upsert_inbox lines 95-102: the dict
\* built from an item (an absent or empty captured_at is left out).
InboxDict(item) ==
    IF TruthyStr(Get(item, "captured_at"))
    THEN [raw_text |-> item["raw_text"], captured_at |-> item["captured_at"]]
    ELSE [raw_text |-> item["raw_text"]]

InboxBatchRows(items, u) ==
    [i \in 1..Len(items) |->
        LET ident == IF Get(items[i], "id") = None
                     THEN Uuid4(uuids + Unnamed(items, i)) ELSE items[i]["id"][1]
        IN  TaskRowDict(InboxDict(items[i]), u, ident)]

\* POST /inbox
CaptureInbox(u, body) ==
    /\ LET named == Get(body, "id") # None
           ident == IF named THEN body["id"][1] ELSE Uuid4(uuids + 1)
           row == Merge(InboxDefaults, TaskRowDict(InboxDict(body), u, ident))
       IN  /\ Served([NoReq EXCEPT !.op = "capture_inbox", !.user = u, !.data = body])
           /\ IF \E x \in inbox : x.id = ident
              THEN \* duplicate key: the store raises
                   /\ resp' = Resp(500, "Internal server error", {})
                   /\ UNCHANGED <<inbox, uuids>>
              ELSE /\ inbox' = inbox \cup {row}
                   /\ resp' = Resp(201, "", {row})
                   /\ uuids' = IF named THEN uuids ELSE uuids + 1
    /\ UNCHANGED <<tasks, categories, norm, race>>

\* POST /inbox/batch
BatchUpsertInbox(u, items) ==
    /\ LET rows == InboxBatchRows(items, u)
           r == [NoReq EXCEPT !.op = "batch_upsert_inbox", !.user = u, !.n = Len(items), !.data = items,
                              !.ids = [i \in 1..Len(items) |-> Get(items[i], "id")]]
       IN  /\ Served(r)
           /\ IF TooMany(Len(items), MaxInboxBatch)
              THEN /\ resp' = Resp(400, "Max 100 inbox items per batch", {})
                   /\ UNCHANGED <<inbox, uuids>>
              ELSE IF Len(rows) = 0
              THEN /\ resp' = Resp(200, "", {})
                   /\ UNCHANGED <<inbox, uuids>>
              ELSE IF UpsertRaises(rows)
              THEN /\ resp' = Resp(500, "Internal server error", {})
                   /\ uuids' = uuids + Unnamed(items, Len(items))
                   /\ UNCHANGED inbox
              ELSE /\ inbox' = Upsert(inbox, rows, InboxDefaults)
                   /\ resp' = Resp(200, "", Upserted(Upsert(inbox, rows, InboxDefaults), rows))
                   /\ uuids' = uuids + Unnamed(items, Len(items))
    /\ UNCHANGED <<tasks, categories, norm, race>>

\* DELETE /inbox/{inbox_id}
DeleteInbox(u, id) ==
    /\ Served([NoReq EXCEPT !.op = "delete_inbox", !.user = u, !.id = id])
    /\ LET hit == Match(inbox, id, u)
       IN  /\ inbox' = DeleteRows(inbox, hit, FALSE)
           /\ resp' = IF hit = {}
                      THEN Resp(404, "Inbox item not found", {})
                      ELSE Resp(204, "", {})
    /\ UNCHANGED <<tasks, categories, uuids, norm, race>>

\* DELETE /inbox?inbox_ids=...
BatchDeleteInbox(u, ids) ==
    /\ Served([NoReq EXCEPT !.op = "batch_delete_inbox", !.user = u, !.ids = ids, !.n = Len(ids)])
    /\ IF TooMany(Len(ids), MaxInboxBatch)
       THEN /\ resp' = Resp(400, "Max 100 IDs per batch delete", {})
            /\ UNCHANGED inbox
       ELSE /\ inbox' = DeleteRows(inbox, { r \in inbox : r.id \in Range(ids) /\ r.user_id = u }, FALSE)
            /\ resp' = Resp(204, "", {})
    /\ UNCHANGED <<tasks, categories, uuids, norm, race>>

-----------------------------------------------------------------------------
(* Inbox to task conversion, inbox.py convert_inbox_to_task.  An           *)
(* InboxConvert body is the dict of the fields the client sent; a field it *)
(* did not send reads as the schema's default.                             *)

\* str.strip() on the strings the model sends.
Strip(s) == IF s = " " THEN "" ELSE IF s = " t " THEN "t" ELSE s

\* body.<k>: the value sent, or the default of the schema.
Attr(body, k, default) == IF k \in DOMAIN body THEN body[k] ELSE default

\* A slip: the override title is not looked at.
ConvertTitleRaw(body, item) == Strip(item.raw_text[1])

\* (body.title or inbox_item["raw_text"]).strip()
ConvertTitle(body, item) ==
    LET sent == Attr(body, "title", None)
    IN  Strip(IF sent # None /\ sent[1] # "" THEN sent[1] ELSE item.raw_text[1])

\* task_data, lines 140-154, read at time t.
ConvertTaskData(body, item, u, t) ==
    LET d0 == [user_id |-> u, title |-> Some(ConvertTitle(body, item)),
               priority |-> Attr(body, "priority", Some("none")),
               energy_level |-> Attr(body, "energy_level", Some("medium"))]
        dl == Attr(body, "deadline", None)
        d1 == IF TruthyStr(dl) THEN Put(d0, "deadline", dl) ELSE d0
        em == Attr(body, "estimated_minutes", None)
        d2 == IF em # None /\ em # Some(0) THEN Put(d1, "estimated_minutes", em) ELSE d1
    IN  IF Attr(body, "is_completed", Some(FALSE)) = Some(TRUE)
        THEN Put(Put(d2, "is_completed", Some(TRUE)), "completed_at", Some(IsoFormat(t)))
        ELSE d2

\* The row the store inserts for task_data: the identifier is the store's.
ConvertRow(body, item, u, t, n) ==
    Merge(TaskDefaults, Put(ConvertTaskData(body, item, u, t), "id", Uuid4(n)))

\* POST /inbox/{inbox_id}/convert
ConvertInbox(u, id, body) ==
    /\ Served([NoReq EXCEPT !.op = "convert_inbox", !.user = u, !.id = id, !.data = body])
    /\ LET existing == Match(inbox, id, u)
       IN  IF existing = {}
           THEN /\ resp' = Resp(404, "Inbox item not found", {})
                /\ UNCHANGED <<tasks, inbox, uuids>>
           ELSE LET item == CHOOSE r \in existing : TRUE
                    row == ConvertRow(body, item, u, now, uuids + 1)
                IN  IF ConvertTitle(body, item) = ""
                    THEN /\ resp' = Resp(400, "Title cannot be empty", {})
                         /\ UNCHANGED <<tasks, inbox, uuids>>
                    ELSE /\ tasks' = tasks \cup {row}
                         /\ inbox' = DeleteRows(inbox, Match(inbox, id, u), FALSE)
                         /\ uuids' = uuids + 1
                         /\ resp' = Resp(201, "", {row})
    /\ UNCHANGED <<categories, norm, race>>

\* InboxConvert bodies.
ConvertBodies ==
    { EmptyDict, [title |-> Some(" t ")], [title |-> Some(" ")], [title |-> Some("")],
      [title |-> None, is_completed |-> Some(TRUE)],
      [priority |-> Some("high"), energy_level |-> Some("low"), estimated_minutes |-> Some(30),
       deadline |-> Stamp0] }

-----------------------------------------------------------------------------
(* SpecCategories: the categories router serving requests of two users,    *)
(* from a table two batch upserts left.                                    *)

\* ua: categories 1 (default), 2 and 3, in that order; ub: category 4.
SeedCategories ==
    LET byA == CategoryBatchRows(
                 << [id |-> Some(1), name |-> Some("a"), sort_order |-> Some(0),
                     is_default |-> Some(TRUE)],
                    [id |-> Some(2), name |-> Some("a"), sort_order |-> Some(1)],
                    [id |-> Some(3), name |-> Some("a"), sort_order |-> Some(2)] >>, "ua")
        byB == CategoryBatchRows(<< [id |-> Some(4), name |-> Some("a")] >>, "ub")
    IN  Upsert(Upsert({}, byA, CategoryDefaults), byB, CategoryDefaults)

CategoryIds == {1, 2, 3, 4, 5}

\* CategoryCreate bodies (name is required).
CategoryItems ==
    { [name |-> Some("b")],
      [id |-> Some(2), name |-> Some("b"), is_default |-> Some(TRUE)],
      [id |-> Some(4), name |-> Some("b")],
      [id |-> Some(5), name |-> Some("b"), sort_order |-> Some(1)] }

CategoryBatches ==
    DistinctSeqsUpTo(CategoryItems, MaxBatch)
    \cup { Copies([id |-> Some(5), name |-> Some("b")], n) : n \in {MaxCategoryBatch, MaxCategoryBatch + 1} }

\* CategoryUpdate bodies.
CategoryPatches ==
    { EmptyDict, [name |-> Some("b")], [sort_order |-> Some(5)], [sort_order |-> None] }

\* CategoryReorder.ordered_ids: lists of ua's identifiers, repeated or not,
\* and lists that name ub's category.
OrderedIds == SeqsUpTo({1, 2, 3}, MaxOrder) \cup { <<4>>, <<4, 1>>, <<2, 4>> }

InitCategories ==
    /\ uuids = 0 /\ nops = 0
    /\ tasks = {} /\ categories = SeedCategories /\ inbox = {}
    /\ now = Epoch
    /\ req = NoReq /\ resp = NoResp /\ norm = NoNorm /\ race = NoRace

NextCategories ==
    \/ \E u \in Users : nops < MaxOps /\ ListCategories(u)
    \/ \E u \in Users, body \in CategoryItems : nops < MaxOps /\ CreateCategory(u, body)
    \/ \E u \in Users, items \in CategoryBatches : nops < MaxOps /\ BatchUpsertCategories(u, items)
    \/ \E u \in Users, id \in CategoryIds, body \in CategoryPatches : nops < MaxOps /\ UpdateCategory(u, id, body)
    \/ \E u \in Users, ids \in OrderedIds : nops < MaxOps /\ ReorderCategories(u, ids)
    \/ \E u \in Users, id \in CategoryIds : nops < MaxOps /\ DeleteCategory(u, id)

SpecCategories == InitCategories /\ [][NextCategories]_vars

-----------------------------------------------------------------------------
(* SpecInbox: the inbox router.                                            *)

\* ua: item 1; ub: item 2.
SeedInbox ==
    Upsert(Upsert({}, InboxBatchRows(<< [id |-> Some(1), raw_text |-> Some("a")] >>, "ua"), InboxDefaults),
           InboxBatchRows(<< [id |-> Some(2), raw_text |-> Some("a"), captured_at |-> Stamp0] >>, "ub"),
           InboxDefaults)

InboxIds == {1, 2, 5}

\* InboxCreate bodies (raw_text is required).
InboxItems ==
    { [raw_text |-> Some("b")],
      [id |-> Some(2), raw_text |-> Some("b")],
      [id |-> Some(1), raw_text |-> Some("b"), captured_at |-> Stamp0],
      [id |-> Some(5), raw_text |-> Some("b"), captured_at |-> Some(EmptyStr)] }

InboxBatches ==
    DistinctSeqsUpTo(InboxItems, MaxBatch)
    \cup { Copies([id |-> Some(2), raw_text |-> Some("b")], 2) }
    \cup { Copies([raw_text |-> Some("b")], MaxInboxBatch),
           Copies([id |-> Some(5), raw_text |-> Some("b")], MaxInboxBatch + 1) }

InboxIdLists ==
    (SeqsUpTo({1, 2}, MaxBatch) \ {<<>>})
    \cup { Copies(5, n) : n \in {MaxInboxBatch, MaxInboxBatch + 1} }

InitInbox ==
    /\ uuids = 0 /\ nops = 0
    /\ tasks = {} /\ categories = {} /\ inbox = SeedInbox
    /\ now = Epoch
    /\ req = NoReq /\ resp = NoResp /\ norm = NoNorm /\ race = NoRace

NextInbox ==
    \/ \E u \in Users, body \in InboxItems : nops < MaxOps /\ CaptureInbox(u, body)
    \/ \E u \in Users, items \in InboxBatches : nops < MaxOps /\ BatchUpsertInbox(u, items)
    \/ \E u \in Users, id \in InboxIds : nops < MaxOps /\ DeleteInbox(u, id)
    \/ \E u \in Users, ids \in InboxIdLists : nops < MaxOps /\ BatchDeleteInbox(u, ids)
    \/ \E u \in Users, id \in InboxIds, body \in ConvertBodies : nops < MaxOps /\ ConvertInbox(u, id, body)

SpecInbox == InitInbox /\ [][NextInbox]_vars

-----------------------------------------------------------------------------
(* SpecBatch: the batch endpoints of the three routers over the three      *)
(* tables.                                                                 *)

InitBatch ==
    /\ uuids = 0 /\ nops = 0
    /\ tasks = SeedTasks /\ categories = SeedCategories /\ inbox = SeedInbox
    /\ now = Epoch
    /\ req = NoReq /\ resp = NoResp /\ norm = NoNorm /\ race = NoRace

NextBatch ==
    \/ \E u \in Users, items \in TaskBatches : nops < MaxOps /\ BatchUpsertTasks(u, items)
    \/ \E u \in Users, items \in CategoryBatches : nops < MaxOps /\ BatchUpsertCategories(u, items)
    \/ \E u \in Users, items \in InboxBatches : nops < MaxOps /\ BatchUpsertInbox(u, items)
    \/ \E u \in Users, ids \in TaskIdLists : nops < MaxOps /\ BatchDeleteTasks(u, ids)
    \/ \E u \in Users, ids \in InboxIdLists : nops < MaxOps /\ BatchDeleteInbox(u, ids)

SpecBatch == InitBatch /\ [][NextBatch]_vars

-----------------------------------------------------------------------------
(* SpecNormalizer: _auto_complete_fields applied to a payload, the clock   *)
(* advancing, and applied again to its own output.                         *)

NormInstants == [day : 1..MaxDay, tod : {0}, us : {0, 7}]

InitNormalizer ==
    /\ tasks = {} /\ categories = {} /\ inbox = {}
    /\ now = Epoch /\ nops = 0 /\ uuids = 0
    /\ req = NoReq /\ resp = NoResp /\ race = NoRace
    /\ \E p \in NormPayloads : norm = [NoNorm EXCEPT !.data = p, !.once = p, !.twice = p]

NormalizeOnce ==
    /\ norm.stage = 0
    /\ \E t1 \in NormInstants, t2 \in NormInstants :
        /\ NotAfter(now, t1) /\ NotAfter(t1, t2)
        /\ norm' = [norm EXCEPT !.stage = 1, !.t1 = t1, !.t2 = t2,
                                !.once = AutoCompleteFields(norm.data, t1, t2),
                                !.twice = AutoCompleteFields(norm.data, t1, t2)]
        /\ now' = t2
    /\ UNCHANGED <<tasks, categories, inbox, nops, uuids, req, resp, race>>

NormalizeTwice ==
    /\ norm.stage = 1
    /\ \E t3 \in NormInstants, t4 \in NormInstants :
        /\ NotAfter(now, t3) /\ NotAfter(t3, t4)
        /\ norm' = [norm EXCEPT !.stage = 2, !.t3 = t3, !.t4 = t4,
                                !.twice = AutoCompleteFields(norm.once, t3, t4)]
        /\ now' = t4
    /\ UNCHANGED <<tasks, categories, inbox, nops, uuids, req, resp, race>>

NextNormalizer == NormalizeOnce \/ NormalizeTwice

SpecNormalizer == InitNormalizer /\ [][NextNormalizer]_vars

-----------------------------------------------------------------------------
(* SpecDeleteRace: one delete-category request served store call by store  *)
(* call (the read of is_default at categories.py 185-192, the delete at    *)
(* 198-204) while another worker serves batch upserts of categories.  race *)
(* is the delete request in flight: its position, what its read returned,  *)
(* its answer, and the rows its delete returned.                           *)

\* delete_category up to its read of the row, and the two early answers.
DeleteCategorySelect(u, id) ==
    /\ race.pc = "idle"
    /\ LET existing == Match(categories, id, u)
           r == [race EXCEPT !.user = u, !.id = id, !.existing = existing]
       IN  race' = IF existing = {}
                   THEN [r EXCEPT !.pc = "done", !.status = 404, !.detail = "Category not found"]
                   ELSE IF DeleteRefused(existing)
                   THEN [r EXCEPT !.pc = "done", !.status = 400,
                                  !.detail = "Cannot delete a default category"]
                   ELSE [r EXCEPT !.pc = "selected"]
    /\ UNCHANGED <<tasks, categories, inbox, now, nops, uuids, req, resp, norm>>

\* delete_category from its delete to its answer.
DeleteCategoryDelete ==
    /\ race.pc = "selected"
    /\ LET data == Match(categories, race.id, race.user)
       IN  /\ categories' = DeleteRows(categories, data, FALSE)
           /\ race' = IF data = {}
                      THEN [race EXCEPT !.pc = "done", !.status = 404,
                                        !.detail = "Category not found"]
                      ELSE [race EXCEPT !.pc = "done", !.status = 204, !.data = data]
    /\ UNCHANGED <<tasks, inbox, now, nops, uuids, req, resp, norm>>

InitDeleteRace == InitCategories

NextDeleteRace ==
    \/ \E u \in Users, id \in CategoryIds : DeleteCategorySelect(u, id)
    \/ DeleteCategoryDelete
    \/ \E u \in Users, items \in CategoryBatches : nops < MaxOps /\ BatchUpsertCategories(u, items)

SpecDeleteRace == InitDeleteRace /\ [][NextDeleteRace]_vars

-----------------------------------------------------------------------------
(* SpecConvert: one convert request served store call by store call (the   *)
(* select at inbox.py 123-130, the insert at 156, the delete at 161).  A   *)
(* store call may raise, having written or not, and the server may stop    *)
(* between two calls, while another worker serves captures.  race is the   *)
(* request in flight: what its select returned, the task its insert        *)
(* stored, and its answer.                                                 *)

\* A slip: the inbox row is deleted before the task is inserted.
ConvertDeleteReadyEarly(pc) == pc \in {"fetched", "inserted"}

\* The delete at line 161 is reached only past the insert and its check.
ConvertDeleteReady(pc) == pc = "inserted"

\* The outcomes of a store call that writes: done and answered, raised
\* with nothing written, raised after the write.
StoreOutcomes == {"ok", "failed", "lost"}

\* convert_inbox_to_task up to the title check, lines 120-137.
ConvertSelect(u, id, body) ==
    /\ race.pc = "idle"
    /\ LET existing == Match(inbox, id, u)
           r == [race EXCEPT !.user = u, !.id = id, !.body = body, !.existing = existing]
       IN  race' = IF existing = {}
                   THEN [r EXCEPT !.pc = "done", !.status = 404, !.detail = "Inbox item not found"]
                   ELSE IF ConvertTitle(body, CHOOSE x \in existing : TRUE) = ""
                   THEN [r EXCEPT !.pc = "done", !.status = 400, !.detail = "Title cannot be empty"]
                   ELSE [r EXCEPT !.pc = "fetched"]
    /\ UNCHANGED <<tasks, categories, inbox, now, nops, uuids, req, resp, norm>>

\* The insert, lines 139-158.
ConvertInsert ==
    /\ race.pc = "fetched"
    /\ \E out \in StoreOutcomes :
        LET item == CHOOSE x \in race.existing : TRUE
            row == ConvertRow(race.body, item, race.user, now, uuids + 1)
        IN  /\ tasks' = IF out = "failed" THEN tasks ELSE tasks \cup {row}
            /\ uuids' = IF out = "failed" THEN uuids ELSE uuids + 1
            /\ race' = IF out = "ok"
                       THEN [race EXCEPT !.pc = "inserted", !.data = {row}]
                       ELSE [race EXCEPT !.pc = "done", !.status = 500,
                                         !.detail = "Internal server error",
                                         !.data = IF out = "lost" THEN {row} ELSE {}]
    /\ UNCHANGED <<categories, inbox, now, nops, req, resp, norm>>

\* The delete and the answer, lines 160-167.
ConvertDelete ==
    /\ ConvertDeleteReady(race.pc)
    /\ \E out \in StoreOutcomes :
        /\ inbox' = IF out = "failed" THEN inbox
                    ELSE DeleteRows(inbox, Match(inbox, race.id, race.user), FALSE)
        /\ race' = IF out = "ok"
                   THEN [race EXCEPT !.pc = "done", !.status = 201]
                   ELSE [race EXCEPT !.pc = "done", !.status = 500,
                                     !.detail = "Internal server error"]
    /\ UNCHANGED <<tasks, categories, now, nops, uuids, req, resp, norm>>

\* The server stops between two store calls of the request.
ConvertCrash ==
    /\ race.pc \in {"fetched", "inserted"}
    /\ race' = [race EXCEPT !.pc = "crashed"]
    /\ UNCHANGED <<tasks, categories, inbox, now, nops, uuids, req, resp, norm>>

InitConvert == InitInbox

NextConvert ==
    \/ \E u \in Users, id \in InboxIds, body \in ConvertBodies : ConvertSelect(u, id, body)
    \/ ConvertInsert
    \/ ConvertDelete
    \/ ConvertCrash
    \/ \E u \in Users, body \in InboxItems : nops < MaxOps /\ CaptureInbox(u, body)

SpecConvert == InitConvert /\ [][NextConvert]_vars

-----------------------------------------------------------------------------
(* SpecAuth: the dependency get_current_user_id (auth.py) in front of the  *)
(* handlers.  The framework resolves the dependency first and calls the    *)
(* handler, where every store call is, only with the identifier it         *)
(* returned.  An Authorization header is absent (None) or a value, kept as *)
(* its first seven characters and the rest.  race is the request whose     *)
(* dependency was resolved: race.id is the number of requests served       *)
(* before it, so it is pending while race.id = nops.                       *)

\* The headers requests carry.
Headers ==
    { None, Some(<<"Basic t", "">>), Some(<<"bearer ", "t">>), Some(<<"Bearer ", "">>),
      Some(<<"Bearer ", " ">>), Some(<<"Bearer ", "t">>), Some(<<"Bearer ", " t ">>) }

\* What client.auth.get_user(token) does: it raises, returns no user, or
\* returns the user of the token.
VerifyOutcomes == {"raises", "nouser"} \cup Users

\* get_current_user_id: the status and detail it ends the request with, or
\* status 0 and the identifier it returns.  An absent header fails the
\* framework's validation of the required parameter (Header(...)).
GetCurrentUserId(header, out) ==
    IF header = None
    THEN [status |-> 422, detail |-> "Field required", user |-> ""]
    ELSE IF header[1][1] # "Bearer "
    THEN [status |-> 401, detail |-> "Missing Bearer token", user |-> ""]
    ELSE IF Strip(header[1][2]) = ""
    THEN [status |-> 401, detail |-> "Empty token", user |-> ""]
    ELSE IF out = "raises"
    THEN [status |-> 401, detail |-> "Authentication failed", user |-> ""]
    ELSE IF out = "nouser"
    THEN [status |-> 401, detail |-> "Invalid token - no user", user |-> ""]
    ELSE [status |-> 0, detail |-> "", user |-> out]

\* The dependency of the pending request returned an identifier.
Pending == race.pc = "authenticated" /\ race.id = nops

\* A request arrives and its dependency is resolved.
Authenticate(header, out) ==
    /\ ~Pending
    /\ LET a == GetCurrentUserId(header, out)
           r == [NoRace EXCEPT !.id = nops, !.user = a.user, !.status = a.status,
                               !.detail = a.detail, !.existing = {header}]
       IN  IF a.status # 0
           THEN /\ race' = [r EXCEPT !.pc = "rejected"]
                /\ Served([NoReq EXCEPT !.op = "rejected"])
                /\ resp' = Resp(a.status, a.detail, {})
           ELSE /\ race' = [r EXCEPT !.pc = "authenticated"]
                /\ UNCHANGED <<now, nops, req, resp>>
    /\ UNCHANGED <<tasks, categories, inbox, uuids, norm>>

InitAuth ==
    /\ uuids = 0 /\ nops = 0
    /\ tasks = SeedTasks /\ categories = SeedCategories /\ inbox = SeedInbox
    /\ now = Epoch
    /\ req = NoReq /\ resp = NoResp /\ norm = NoNorm /\ race = NoRace

NextAuth ==
    \/ \E h \in Headers, out \in VerifyOutcomes : nops < MaxSeq /\ Authenticate(h, out)
    \/ \E id \in TaskIds : Pending /\ GetTask(race.user, id)
    \/ \E id \in TaskIds : Pending /\ ArchiveTask(race.user, id)
    \/ Pending /\ ListCategories(race.user)
    \/ \E id \in CategoryIds : Pending /\ DeleteCategory(race.user, id)
    \/ \E body \in InboxItems : Pending /\ CaptureInbox(race.user, body)
    \/ \E id \in InboxIds : Pending /\ DeleteInbox(race.user, id)

SpecAuth == InitAuth /\ [][NextAuth]_vars

-----------------------------------------------------------------------------
(* SpecTwin: one request of ua served on two stores that differ only in    *)
(* the rows of ub.  The request is served on the store without ub's rows;  *)
(* Replace keeps the request, its response and ua's rows in race.first and *)
(* puts the store with ub's rows (task 4, category 4, inbox item 2), the   *)
(* clock and the identifier source where the same request is served again. *)

\* The rows of a table that user u owns.
Own(table, u) == { r \in table : r.user_id = u }

\* What ua can see of a served request: the response and ua's rows.
Seen == [req |-> req, resp |-> resp,
         own |-> <<Own(tasks, "ua"), Own(categories, "ua"), Own(inbox, "ua")>>]

Replace ==
    /\ race.pc = "idle" /\ nops = 1
    /\ race' = [race EXCEPT !.pc = "again", !.first = Seen]
    /\ tasks' = SeedTasks /\ categories' = SeedCategories /\ inbox' = SeedInbox
    /\ nops' = 0 /\ uuids' = 0 /\ now' = Epoch
    /\ req' = NoReq /\ resp' = NoResp
    /\ UNCHANGED norm

\* The second serving is of the request served first.
Same == race.pc = "again" => (req'.op = race.first.req.op /\ req' = race.first.req)

InitTwin ==
    /\ uuids = 0 /\ nops = 0
    /\ tasks = Own(SeedTasks, "ua") /\ categories = Own(SeedCategories, "ua")
    /\ inbox = Own(SeedInbox, "ua")
    /\ now = Epoch
    /\ req = NoReq /\ resp = NoResp /\ norm = NoNorm /\ race = NoRace

NextTwin ==
    \/ Replace
    \/ \E id \in TaskIds : nops = 0 /\ GetTask("ua", id) /\ Same
    \/ \E id \in TaskIds, body \in TaskPatches : nops = 0 /\ UpdateTask("ua", id, body) /\ Same
    \/ \E id \in TaskIds : nops = 0 /\ DeleteTask("ua", id) /\ Same
    \/ \E id \in TaskIds, m \in ActualMinutes : nops = 0 /\ CompleteTask("ua", id, m) /\ Same
    \/ \E id \in TaskIds : nops = 0 /\ UncompleteTask("ua", id) /\ Same
    \/ \E id \in TaskIds : nops = 0 /\ ArchiveTask("ua", id) /\ Same
    \/ \E id \in TaskIds : nops = 0 /\ DeferTask("ua", id) /\ Same
    \/ \E items \in TaskBatches : nops = 0 /\ BatchUpsertTasks("ua", items) /\ Same
    \/ \E id \in CategoryIds, body \in CategoryPatches : nops = 0 /\ UpdateCategory("ua", id, body) /\ Same
    \/ \E id \in CategoryIds : nops = 0 /\ DeleteCategory("ua", id) /\ Same
    \/ \E items \in CategoryBatches : nops = 0 /\ BatchUpsertCategories("ua", items) /\ Same
    \/ \E id \in InboxIds : nops = 0 /\ DeleteInbox("ua", id) /\ Same
    \/ \E id \in InboxIds, body \in ConvertBodies : nops = 0 /\ ConvertInbox("ua", id, body) /\ Same
    \/ \E items \in InboxBatches : nops = 0 /\ BatchUpsertInbox("ua", items) /\ Same

SpecTwin == InitTwin /\ [][NextTwin]_vars

-----------------------------------------------------------------------------
(* SpecAnalytics: the streaks of GET /profile/analytics, profile.py         *)
(* get_analytics.  A calendar day is a number; the date part of a stored   *)
(* timestamp (completed_at[:10]) is the first component of its isoformat.  *)
(* The handler reads the clock anew for today_str, for yesterday_str and   *)
(* for check: d1, d2 and d3 are the days of the three readings.            *)

DayOf(iso) == iso[1]

\* completed_days: the days of the rows that are completed and stamped.
CompletedDays(rows) ==
    { DayOf(r.completed_at[1]) :
        r \in { x \in rows : x.is_completed = Some(TRUE) /\ x.completed_at # None } }

\* sorted(completed_days)
RECURSIVE SortedDays(_)
SortedDays(days) ==
    IF days = {} THEN <<>>
    ELSE LET least == CHOOSE d \in days : \A e \in days : d <= e
         IN  <<least>> \o SortedDays(days \ {least})

Max(a, b) == IF a >= b THEN a ELSE b

\* The while loop: the days counted from check backwards.
RECURSIVE CountBack(_, _)
CountBack(days, check) ==
    IF check \in days THEN 1 + CountBack(days, check - 1) ELSE 0

CurrentStreak(days, d1, d2, d3) ==
    IF d1 \in days THEN 1 + CountBack(days, d3 - 1)
    ELSE IF d2 - 1 \in days THEN 1 + CountBack(days, d3 - 2)
    ELSE 0

\* The for loop over sorted_days, from index i with the running values.
RECURSIVE BestLoop(_, _, _, _)
BestLoop(sorted, i, run, best) ==
    IF i > Len(sorted) THEN Max(best, run)
    ELSE IF sorted[i] - sorted[i - 1] = 1
         THEN BestLoop(sorted, i + 1, run + 1, best)
         ELSE BestLoop(sorted, i + 1, 1, Max(best, run))

BestStreak(days) ==
    IF days = {} THEN 0 ELSE BestLoop(SortedDays(days), 2, 1, 0)

\* GET /profile/analytics; the clock may pass midnight between two readings.
GetAnalytics(u, d2, d3) ==
    /\ now.day <= d2 /\ d2 <= d3
    /\ LET days == CompletedDays(Own(tasks, u))
       IN  resp' = Resp(200, "", {[current_streak |-> CurrentStreak(days, now.day, d2, d3),
                                   best_streak |-> BestStreak(days)]})
    /\ req' = [NoReq EXCEPT !.op = "get_analytics", !.user = u,
                            !.data = [today |-> now.day, yesterday |-> d2 - 1, check |-> d3]]
    /\ nops' = nops + 1
    /\ now' = Later([now EXCEPT !.day = d3])
    /\ UNCHANGED <<tasks, uuids>>

\* What a stored task says about its completion: nothing, completed on a
\* day, or a completed_at sent without is_completed.
Marks ==
    { EmptyDict, [completed_at |-> Some(<<2, 0>>)] }
    \cup { [is_completed |-> Some(TRUE), completed_at |-> Some(<<d, 0>>)] : d \in 1..MaxHistory }

\* The table after the three tasks of ua were upserted with these marks.
History(marks) ==
    Upsert({}, TaskBatchRows([i \in 1..3 |-> [id |-> Some(i), title |-> Some("a")] @@ marks[i]],
                             "ua", Epoch), TaskDefaults)

InitAnalytics ==
    /\ uuids = 0 /\ nops = 0
    /\ \E marks \in [1..3 -> Marks] : tasks = History(marks)
    /\ categories = {} /\ inbox = {}
    /\ \E d \in 1..(MaxHistory + 1) : now = [Epoch EXCEPT !.day = d]
    /\ req = NoReq /\ resp = NoResp /\ norm = NoNorm /\ race = NoRace

NextAnalytics ==
    \/ \E u \in Users, d2, d3 \in {now.day, now.day + 1} :
          nops < MaxOps /\ GetAnalytics(u, d2, d3) /\ UNCHANGED <<categories, inbox, norm, race>>

SpecAnalytics == InitAnalytics /\ [][NextAnalytics]_vars

-----------------------------------------------------------------------------
(* SpecValidate: the request bodies as the client sends them.  The         *)
(* framework builds the handler's body parameter from the schema class     *)
(* first; a validator that raises ends the request with 422 and the        *)
(* handler does not run.  TaskCompleteBody and InboxConvert declare no     *)
(* validator, so their handlers get the body as sent.                      *)

VALID_PRIORITIES == {"high", "medium", "low", "none"}
VALID_ENERGY == {"high", "medium", "low"}

\* TaskCreate: some validator raises (title is required, priority and
\* energy_level are plain strings, estimated_minutes may be null).
TaskCreateRaises(body) ==
    \/ Get(body, "title") = None \/ Strip(body["title"][1]) = ""
    \/ "priority" \in DOMAIN body
          /\ (body["priority"] = None \/ body["priority"][1] \notin VALID_PRIORITIES)
    \/ "energy_level" \in DOMAIN body
          /\ (body["energy_level"] = None \/ body["energy_level"][1] \notin VALID_ENERGY)
    \/ "estimated_minutes" \in DOMAIN body /\ body["estimated_minutes"] # None
          /\ body["estimated_minutes"][1] <= 0

\* TaskCreate: the values the validators return (title_not_empty strips).
TaskCreateParsed(body) == [body EXCEPT !["title"] = Some(Strip(@[1]))]

\* TaskUpdate: some validator raises (every field may be null).
TaskUpdateRaises(body) ==
    \/ Get(body, "title") # None /\ Strip(body["title"][1]) = ""
    \/ Get(body, "priority") # None /\ body["priority"][1] \notin VALID_PRIORITIES
    \/ Get(body, "energy_level") # None /\ body["energy_level"][1] \notin VALID_ENERGY

TaskUpdateParsed(body) ==
    IF Get(body, "title") # None THEN [body EXCEPT !["title"] = Some(Strip(@[1]))] ELSE body

\* The framework's answer to a body that does not validate.
Unprocessable(r) ==
    /\ Served(r)
    /\ resp' = Resp(422, "Value error", {})
    /\ UNCHANGED <<tasks, categories, inbox, uuids, norm, race>>

PostTask(u, body) ==
    IF TaskCreateRaises(body)
    THEN Unprocessable([NoReq EXCEPT !.op = "create_task", !.user = u, !.data = body])
    ELSE CreateTask(u, TaskCreateParsed(body))

PostTaskBatch(u, items) ==
    IF \E i \in 1..Len(items) : TaskCreateRaises(items[i])
    THEN Unprocessable([NoReq EXCEPT !.op = "batch_upsert_tasks", !.user = u,
                                     !.n = Len(items), !.data = items])
    ELSE BatchUpsertTasks(u, [i \in 1..Len(items) |-> TaskCreateParsed(items[i])])

PatchTask(u, id, body) ==
    IF TaskUpdateRaises(body)
    THEN Unprocessable([NoReq EXCEPT !.op = "update_task", !.user = u, !.id = id, !.data = body])
    ELSE UpdateTask(u, id, TaskUpdateParsed(body))

\* TaskCreate bodies as sent.
RawTaskItems ==
    { [title |-> Some(" t ")], [title |-> Some(" ")],
      [title |-> Some("b"), priority |-> Some("urgent")],
      [title |-> Some("b"), priority |-> Some("high"), energy_level |-> Some("low")],
      [title |-> Some("b"), energy_level |-> Some("max")],
      [title |-> Some("b"), estimated_minutes |-> Some(0)],
      [title |-> Some("b"), estimated_minutes |-> Some(30), actual_minutes |-> Some(45)],
      [title |-> Some("b"), actual_minutes |-> Some(0 - 5)] }

\* TaskUpdate bodies as sent.
RawTaskPatches ==
    { EmptyDict, [priority |-> Some("urgent")], [priority |-> Some("low")],
      [energy_level |-> Some("max")], [energy_level |-> Some("high")],
      [estimated_minutes |-> Some(0)], [estimated_minutes |-> Some(30)],
      [actual_minutes |-> Some(0 - 5)], [title |-> Some(" ")], [title |-> Some(" t ")] }

\* InboxConvert bodies as sent.
RawConvertBodies ==
    { EmptyDict, [priority |-> Some("urgent")],
      [priority |-> Some("high"), energy_level |-> Some("low")],
      [energy_level |-> Some("max")], [estimated_minutes |-> Some(0 - 5)],
      [estimated_minutes |-> Some(0)], [estimated_minutes |-> Some(30)] }

InitValidate ==
    /\ uuids = 0 /\ nops = 0
    /\ tasks = SeedTasks /\ categories = {} /\ inbox = SeedInbox
    /\ now = Epoch
    /\ req = NoReq /\ resp = NoResp /\ norm = NoNorm /\ race = NoRace

NextValidate ==
    \/ \E u \in Users, body \in RawTaskItems : nops < MaxOps /\ PostTask(u, body)
    \/ \E u \in Users, items \in DistinctSeqsUpTo(RawTaskItems, MaxBatch) :
          nops < MaxOps /\ PostTaskBatch(u, items)
    \/ \E u \in Users, id \in {1, 4}, body \in RawTaskPatches : nops < MaxOps /\ PatchTask(u, id, body)
    \/ \E u \in Users, id \in {1, 4}, m \in ActualMinutes : nops < MaxOps /\ CompleteTask(u, id, m)
    \/ \E u \in Users, id \in InboxIds, body \in RawConvertBodies :
          nops < MaxOps /\ ConvertInbox(u, id, body)

SpecValidate == InitValidate /\ [][NextValidate]_vars

-----------------------------------------------------------------------------
(* SpecDeferRace: defer requests served concurrently, each store call of   *)
(* defer_task a step of its own.  race.body maps a request to its position *)
(* (pc), the caller, the identifier, the row the select returned and the   *)
(* status it was answered with.                                            *)

\* The requests in flight together.
Workers == 1..MaxSeq

IdleWorker == [pc |-> "idle", user |-> "", id |-> 0, existing |-> {}, status |-> 0]

\* The select of defer_count, and the 404 when it returns nothing.
DeferSelect(p, u, id) ==
    /\ race.body[p].pc = "idle"
    /\ LET existing == Match(tasks, id, u)
           w == [IdleWorker EXCEPT !.user = u, !.id = id, !.existing = existing]
       IN  IF existing = {}
           THEN /\ race' = [race EXCEPT !.body[p] = [w EXCEPT !.pc = "done", !.status = 404]]
                /\ Served([NoReq EXCEPT !.op = "defer_task", !.user = u, !.id = id])
                /\ resp' = Resp(404, "Task not found", {})
           ELSE /\ race' = [race EXCEPT !.body[p] = [w EXCEPT !.pc = "selected"]]
                /\ UNCHANGED <<now, nops, req, resp>>
    /\ UNCHANGED <<tasks, categories, inbox, uuids, norm>>

\* The update with the count computed from the row selected earlier;
\* result.data[0] raises when the update matched no row.
DeferUpdate(p) ==
    /\ race.body[p].pc = "selected"
    /\ LET w == race.body[p]
           row == CHOOSE r \in w.existing : TRUE
           data == [deadline |-> Some(IsoFormat(Tomorrow(now))),
                    defer_count |-> Some(DeferCount(row.defer_count)),
                    overdue_start_date |-> None]
           hit == Match(tasks, w.id, w.user)
       IN  /\ tasks' = UpdateRows(tasks, hit, data)
           /\ resp' = IF hit = {} THEN Resp(500, "Internal server error", {})
                      ELSE Resp(200, "", Match(UpdateRows(tasks, hit, data), w.id, w.user))
           /\ race' = [race EXCEPT !.body[p] = [w EXCEPT !.pc = "done",
                                                 !.status = IF hit = {} THEN 500 ELSE 200]]
           /\ Served([NoReq EXCEPT !.op = "defer_task", !.user = w.user, !.id = w.id])
    /\ UNCHANGED <<categories, inbox, uuids, norm>>

InitDeferRace ==
    /\ uuids = 0 /\ nops = 0
    /\ tasks = SeedTasks /\ categories = {} /\ inbox = {}
    /\ now = Epoch
    /\ req = NoReq /\ resp = NoResp /\ norm = NoNorm
    /\ race = [NoRace EXCEPT !.body = [p \in Workers |-> IdleWorker]]

NextDeferRace ==
    \/ \E p \in Workers, u \in Users, id \in TaskIds : DeferSelect(p, u, id)
    \/ \E p \in Workers : DeferUpdate(p)

SpecDeferRace == InitDeferRace /\ [][NextDeferRace]_vars

-----------------------------------------------------------------------------
(* SpecDeleteTask: delete-task and list-children alone, serving a short    *)
(* sequence of requests, so that a listing follows a deletion.             *)

InitDeleteTask == InitTasks

NextDeleteTask ==
    \/ \E u \in Users, id \in TaskIds : nops < MaxSeq /\ DeleteTask(u, id)
    \/ \E u \in Users, id \in TaskIds : nops < MaxSeq /\ GetChildren(u, id)

SpecDeleteTask == InitDeleteTask /\ [][NextDeleteTask]_vars

-----------------------------------------------------------------------------
(* C3: the normalizer's result.  A completion flag supplied as true with   *)
(* no completion timestamp supplied gives a completion timestamp equal to  *)
(* the server time read; a completion flag supplied as false gives an      *)
(* explicit null completion timestamp whatever timestamp came with it; the *)
(* same for the archival pair; every other field of the payload is         *)
(* returned as it was and no other field is added.                         *)
NormalizerResult ==
    norm.stage >= 1 =>
        LET p == norm.data
            o == norm.once
        IN  /\ (Get(p, "is_completed") = Some(TRUE) /\ "completed_at" \notin DOMAIN p)
                => ("completed_at" \in DOMAIN o /\ o["completed_at"] = Some(IsoFormat(norm.t1)))
            /\ ("is_completed" \in DOMAIN p /\ p["is_completed"] = Some(FALSE))
                => ("completed_at" \in DOMAIN o /\ o["completed_at"] = None)
            /\ (Get(p, "is_archived") = Some(TRUE) /\ "archived_at" \notin DOMAIN p)
                => ("archived_at" \in DOMAIN o /\ o["archived_at"] = Some(IsoFormat(norm.t2)))
            /\ ("is_archived" \in DOMAIN p /\ p["is_archived"] = Some(FALSE))
                => ("archived_at" \in DOMAIN o /\ o["archived_at"] = None)
            /\ (DOMAIN o) \ {"completed_at", "archived_at"} = (DOMAIN p) \ {"completed_at", "archived_at"}
            /\ \A k \in (DOMAIN p) \ {"completed_at", "archived_at"} : o[k] = p[k]

\* A payload with both flags, one true without its timestamp and one false
\* with a timestamp supplied, and another field, has been normalized.
NormalizerResultWitness ==
    /\ norm.stage >= 1
    /\ Get(norm.data, "is_completed") = Some(TRUE)
    /\ "completed_at" \notin DOMAIN norm.data
    /\ Get(norm.data, "is_archived") = Some(FALSE)
    /\ TruthyStr(Get(norm.data, "archived_at"))
    /\ "title" \in DOMAIN norm.data
    /\ norm.t1 # Epoch

(* C4: the normalizer is idempotent.  For every payload, and whatever the  *)
(* clock does between the two applications, applying the normalizer to its *)
(* own output gives that output again.                                     *)
NormalizerIdempotent ==
    norm.stage = 2 => norm.twice = norm.once

\* The second application ran at a later time than the first on a payload
\* whose first application stamped both timestamps.
NormalizerIdempotentWitness ==
    /\ norm.stage = 2
    /\ Get(norm.data, "is_completed") = Some(TRUE)
    /\ ~TruthyStr(Get(norm.data, "completed_at"))
    /\ Get(norm.data, "is_archived") = Some(TRUE)
    /\ "archived_at" \notin DOMAIN norm.data
    /\ norm.t3 # norm.t1 /\ norm.t4 # norm.t2

-----------------------------------------------------------------------------
\* The identifiers of the rows of a table.
Ids(table) == { r.id : r \in table }

(* C2: flag and timestamp pairing.  Every stored task has a non-null       *)
(* completion timestamp exactly when its completion flag is true, and a    *)
(* non-null archival timestamp exactly when its archival flag is true.     *)
FlagTimestampPairing ==
    \A r \in tasks :
        /\ (r.completed_at # None) <=> (r.is_completed = Some(TRUE))
        /\ (r.archived_at # None) <=> (r.is_archived = Some(TRUE))

(* C8: delete-task removes the task and its direct children.  Deleting an  *)
(* existing task T of the caller answers 204 and removes from the store    *)
(* exactly T and the caller's rows whose parent reference is T, and no     *)
(* other row; a listing of the children of T that follows is answered 200  *)
(* with an empty list.                                                     *)
DeleteCascade ==
    [][ /\ (nops' = nops + 1 /\ req'.op = "delete_task"
                /\ Match(tasks, req'.id, req'.user) # {})
            => LET gone == { r \in tasks : /\ r.user_id = req'.user
                                           /\ \/ r.id = req'.id
                                              \/ r.parent_id = Some(req'.id) }
               IN  /\ resp'.status = 204
                   /\ Ids(tasks') = Ids(tasks) \ Ids(gone)
        /\ (nops' = nops + 1 /\ req'.op = "get_children"
                /\ req.op = "delete_task" /\ resp.status = 204
                /\ req'.id = req.id /\ req'.user = req.user)
            => (resp'.status = 200 /\ resp'.rows = {}) ]_vars

\* ua's task 1 was deleted with its child 2, the grandchild 3 and ub's row 4
\* are still stored, and the listing of the children of 1 that followed
\* came back empty.
DeleteCascadeWitness ==
    /\ req.op = "get_children" /\ req.id = 1 /\ req.user = "ua"
    /\ nops = 2
    /\ resp.status = 200 /\ resp.rows = {}
    /\ Ids(tasks) = {3, 4}

(* C10: defer.  Deferring an existing task of the caller answers 200 and   *)
(* stores the task with its defer count one more than the stored count (a  *)
(* null count counts as 0), its deadline on the day after the server's     *)
(* current day at 23:59:59, its overdue start date null, and every other   *)
(* column and every other row as before; deferring a task the caller has   *)
(* not answers 404 and changes nothing.                                    *)
DeferOutcome ==
    [][ (nops' = nops + 1 /\ req'.op = "defer_task")
            => LET hit == Match(tasks, req'.id, req'.user)
               IN  IF hit = {}
                   THEN resp'.status = 404 /\ tasks' = tasks
                   ELSE /\ resp'.status = 200
                        /\ \A r \in hit : \E r2 \in tasks' :
                             /\ r2.deadline # None
                             /\ r2.deadline[1][1] = now.day + 1
                             /\ r2.deadline[1][2] = EndOfDay
                             /\ r2.overdue_start_date = None
                             /\ r2.defer_count =
                                  Some((IF r.defer_count = None THEN 0 ELSE r.defer_count[1]) + 1)
                             /\ r2 = [r EXCEPT !.deadline = r2.deadline,
                                               !.overdue_start_date = None,
                                               !.defer_count = r2.defer_count]
                             /\ tasks' = (tasks \ hit) \cup {r2} ]_vars

\* ua deferred task 3, stored overdue and with a null defer count.
DeferOutcomeWitness ==
    /\ req.op = "defer_task" /\ req.id = 3 /\ req.user = "ua"
    /\ resp.status = 200
    /\ \E r \in tasks : r.id = 3 /\ r.defer_count = Some(1) /\ r.overdue_start_date = None

-----------------------------------------------------------------------------
\* The rows of a table that user u does not own.
Foreign(table, u) == { r \in table : r.user_id # u }

(* C1: tenant isolation.  No request of a user returns, creates, changes   *)
(* or deletes a row owned by another user: served a request of user A,     *)
(* every table holds the rows of the other owners exactly as before, and   *)
(* the response carries rows of A only.  In particular a batch upsert by A *)
(* that names the identifier of a row owned by B leaves that row and its   *)
(* owner unchanged.                                                        *)
TenantIsolation ==
    [][ nops' = nops + 1
            => /\ Foreign(tasks', req'.user) = Foreign(tasks, req'.user)
               /\ Foreign(categories', req'.user) = Foreign(categories, req'.user)
               /\ Foreign(inbox', req'.user) = Foreign(inbox, req'.user)
               /\ \A r \in resp'.rows : r.user_id = req'.user ]_vars

\* The size limit of the batch upsert a request names.
BatchLimit(op) ==
    IF op = "batch_upsert_tasks" THEN MaxTaskBatch
    ELSE IF op = "batch_upsert_categories" THEN MaxCategoryBatch
    ELSE MaxInboxBatch

(* C5: batch size bound.  A batch upsert of more than 200 tasks, 50        *)
(* categories or 100 inbox items is refused with 400 and the store is left *)
(* as it was; a batch upsert of at most that many is not answered 400.     *)
BatchSizeBound ==
    [][ (nops' = nops + 1
            /\ req'.op \in {"batch_upsert_tasks", "batch_upsert_categories", "batch_upsert_inbox"})
            => IF req'.n > BatchLimit(req'.op)
               THEN /\ resp'.status = 400
                    /\ UNCHANGED <<tasks, categories, inbox>>
               ELSE resp'.status # 400 ]_vars

\* A batch of 101 inbox items was refused.
BatchSizeBoundWitness ==
    /\ req.op = "batch_upsert_inbox" /\ req.n = MaxInboxBatch + 1
    /\ resp.status = 400
    /\ inbox = SeedInbox

(* C6: outcomes of category delete.  Deleting a default category of the    *)
(* caller is refused with 400, which is not the 404 of a category that is  *)
(* not found, and the category stays; deleting a category the caller does  *)
(* not own answers 404 and the category stays; deleting a non-default      *)
(* category of the caller answers 204 and removes that category alone.     *)
CategoryDeleteOutcomes ==
    [][ (nops' = nops + 1 /\ req'.op = "delete_category")
            => LET own == Match(categories, req'.id, req'.user)
               IN  IF own = {}
                   THEN resp'.status = 404 /\ categories' = categories
                   ELSE IF \E r \in own : r.is_default = Some(TRUE)
                   THEN /\ resp'.status = 400
                        /\ resp'.detail = "Cannot delete a default category"
                        /\ categories' = categories
                   ELSE resp'.status = 204 /\ categories' = categories \ own ]_vars

\* The deletion of ua's default category 1 was refused and the category is
\* still stored.
CategoryDeleteOutcomesWitness ==
    /\ req.op = "delete_category" /\ req.id = 1 /\ req.user = "ua"
    /\ resp.status = 400
    /\ \E r \in categories : r.id = 1 /\ r.is_default = Some(TRUE)

\* The position of identifier x in the list s (0 when s does not hold it).
IndexOf(s, x) == IF \E i \in 1..Len(s) : s[i] = x
                 THEN CHOOSE i \in 1..Len(s) : s[i] = x ELSE 0

\* ids names no identifier twice.
NoRepeat(ids) == \A i, j \in 1..Len(ids) : i # j => ids[i] # ids[j]

\* What C9 says of a reorder step with a list of identifiers of categories
\* the caller owns; with distinct set, only of lists that name none twice.
ReorderOutcome(distinct) ==
    (nops' = nops + 1 /\ req'.op = "reorder_categories"
        /\ (\A i \in 1..Len(req'.ids) : Match(categories, req'.ids[i], req'.user) # {})
        /\ (distinct => NoRepeat(req'.ids)))
        => LET ids == req'.ids
               u == req'.user
               mine == { r \in categories' : r.user_id = u }
           IN  /\ \A i \in 1..Len(ids) : \A r \in Match(categories', ids[i], u) :
                      r.sort_order = Some(i - 1)
               /\ \A i \in 1..Len(ids) : Match(categories', ids[i], u) # {}
               /\ Foreign(categories', u) = Foreign(categories, u)
               /\ \A s \in SortedBySortOrder(mine) \cup {resp'.order} :
                      \A i, j \in 1..Len(ids) :
                          i < j => (IndexOf(s, ids[i]) > 0
                                    /\ IndexOf(s, ids[i]) < IndexOf(s, ids[j]))

(* C9, as stated: after reorder with a list of identifiers of categories   *)
(* the caller owns, the category at position i of the list has sort order  *)
(* i (from 0), the listing that follows returns the listed categories in   *)
(* the order of the list, and the categories of other users are unchanged. *)
ReorderAnyList == [][ReorderOutcome(FALSE)]_vars

(* C9, amended: the same, for a list that names no identifier twice.       *)
ReorderNoRepeat == [][ReorderOutcome(TRUE)]_vars

\* ua reordered its three categories to 3, 1, 2 and got them back so.
ReorderNoRepeatWitness ==
    /\ req.op = "reorder_categories" /\ req.user = "ua" /\ req.ids = <<3, 1, 2>>
    /\ resp.order = <<3, 1, 2>>
    /\ \E r \in categories : r.id = 3 /\ r.sort_order = Some(0)

(* C7: default-category protection.  A category that is default at the     *)
(* moment of the delete is never removed by delete-category, whatever      *)
(* requests are served between the steps of the delete: the rows a         *)
(* delete-category request removed were not default when it removed them.  *)
DefaultNeverDeleted ==
    \A r \in race.data : r.is_default # Some(TRUE)

\* A stored defer count as a number: the null count is 0, as defer_task
\* reads it.
CountOf(stored) == IF stored = None THEN 0 ELSE stored[1]

(* C11: defer counter monotonicity.  From one state to the next, whatever  *)
(* request is served (partial update, batch upsert, defer, complete,       *)
(* uncomplete, archive), the stored defer count of a task that stays in    *)
(* the store does not decrease.                                            *)
DeferCountMonotone ==
    [][ \A r \in tasks : \A r2 \in tasks' :
            r2.id = r.id => CountOf(r2.defer_count) >= CountOf(r.defer_count) ]_vars

\* What C13 says of a convert step; with exact set the stored title is the
\* override as it was sent, without it the override stripped of the blanks
\* around it (an override that is null or empty counts as not supplied).
ConvertOutcome(exact) ==
    (nops' = nops + 1 /\ req'.op = "convert_inbox")
        => LET u == req'.user
               own == Match(inbox, req'.id, u)
               sent == Attr(req'.data, "title", None)
           IN  /\ own = {} => (resp'.status = 404 /\ tasks' = tasks /\ inbox' = inbox)
               /\ resp'.status = 201 =>
                    /\ own # {}
                    /\ inbox' = inbox \ own
                    /\ \E row \in tasks' :
                         /\ row \notin tasks
                         /\ tasks' = tasks \cup {row}
                         /\ row.user_id = u
                         /\ row.title = IF exact
                                        THEN (IF sent # None THEN sent
                                              ELSE (CHOOSE x \in own : TRUE).raw_text)
                                        ELSE (IF sent # None /\ sent # Some("")
                                              THEN Some(Strip(sent[1]))
                                              ELSE (CHOOSE x \in own : TRUE).raw_text)
               /\ (own # {} /\ resp'.status # 201) => (tasks' = tasks /\ inbox' = inbox)

(* C13, as stated: converting an inbox identifier that is absent or owned  *)
(* by another user answers 404, inserts no task and deletes no inbox row;  *)
(* a successful convert of the caller's item X inserts exactly one task of *)
(* the caller whose title is the override title when one is supplied and   *)
(* X's free text otherwise, and X is no longer in the inbox.               *)
ConvertTitleAsSent == [][ConvertOutcome(TRUE)]_vars

(* C13, amended: the same, the title being the override stripped of the    *)
(* whitespace around it when a non-empty override is supplied, and X's     *)
(* free text otherwise.                                                    *)
ConvertTitleStripped == [][ConvertOutcome(FALSE)]_vars

\* ua converted its inbox item 1 with the override " t ": the item is gone
\* and a task of ua titled "t" is stored.
ConvertTitleStrippedWitness ==
    /\ req.op = "convert_inbox" /\ req.user = "ua" /\ req.id = 1
    /\ Attr(req.data, "title", None) = Some(" t ")
    /\ resp.status = 201
    /\ Match(inbox, 1, "ua") = {}
    /\ \E t \in tasks : t.user_id = "ua" /\ t.title = Some("t")

(* C12: conversion fails towards duplication, not loss.  In every state    *)
(* during or after the conversion of an inbox item X the request found,    *)
(* whichever store call raised and wherever the server stopped, X is in    *)
(* the inbox or the task created from X is in the task table; X is gone    *)
(* only if the insert stored the task, and after an insert that stored     *)
(* nothing X is still there.                                               *)
ConversionKeepsItem ==
    race.existing # {} =>
        LET there == Match(inbox, race.id, race.user) # {}
            made == race.data # {} /\ race.data \subseteq tasks
        IN  /\ there \/ made
            /\ ~there => made
            /\ (race.pc = "done" /\ race.status = 500 /\ race.data = {}) => there

\* The insert stored the task and the server stopped before the delete:
\* the item and the task made from it are both there.
ConversionKeepsItemWitness ==
    /\ race.pc = "crashed" /\ race.body # NoRace.body
    /\ race.data # {} /\ race.data \subseteq tasks
    /\ Match(inbox, race.id, race.user) # {}

\* The header is the prefix "Bearer " followed by a non-empty token.
WellFormed(header) ==
    header # None /\ header[1][1] = "Bearer " /\ header[1][2] # ""

(* C14: authentication precedes data access.  A handler, where the store   *)
(* is read and written, runs only for the request whose verification       *)
(* returned an identity, and with that identity; a request whose header is *)
(* not "Bearer " followed by a non-empty token, or whose verification      *)
(* raises or returns no identity, ends with 401 and the store as it was,   *)
(* whatever an earlier request with the same header got.                   *)
AuthPrecedesAccess ==
    [][ /\ (nops' = nops + 1 /\ req'.op # "rejected")
            => (Pending /\ req'.user = race.user /\ race.user \in Users)
        /\ (race' # race /\ ~WellFormed(CHOOSE h \in race'.existing : TRUE))
            => (resp'.status = 401 /\ nops' = nops + 1
                /\ UNCHANGED <<tasks, categories, inbox>>)
        /\ (race' # race /\ race'.pc = "rejected")
            => (resp'.status = 401 /\ UNCHANGED <<tasks, categories, inbox>>) ]_vars

\* The served request names an identifier under which ub has a row (task 4,
\* category 4, inbox item 2) and ua has none.
NamesOther ==
    \/ req.op \in {"get_task", "update_task", "delete_task", "complete_task",
                   "uncomplete_task", "archive_task", "defer_task",
                   "update_category", "delete_category"} /\ req.id = 4
    \/ req.op \in {"batch_upsert_tasks", "batch_upsert_categories"}
          /\ \E i \in 1..Len(req.ids) : req.ids[i] = Some(4)
    \/ req.op \in {"delete_inbox", "convert_inbox"} /\ req.id = 2
    \/ req.op = "batch_upsert_inbox" /\ \E i \in 1..Len(req.ids) : req.ids[i] = Some(2)

(* C15: existence non-disclosure.  The same request of ua, served on a     *)
(* store without the rows of ub and on the store that has them, gets the   *)
(* same response and leaves the same rows owned by ua: whether another     *)
(* user has a row with the identifier the request names cannot be told.    *)
SameWithOrWithout ==
    (race.pc = "again" /\ nops = 1 /\ NamesOther) =>
        (Seen.resp = race.first.resp /\ Seen.own = race.first.own)

\* The days on which at least one task of u has a completion timestamp.
StampedDays(u) == { DayOf(r.completed_at[1]) : r \in { x \in Own(tasks, u) : x.completed_at # None } }

\* The lengths of the runs of consecutive days of D that end on day d.
RunsEndingOn(D, d) == { n \in 1..(MaxHistory + 2) : \A k \in 0..(n - 1) : d - k \in D }

Longest(S) == IF S = {} THEN 0 ELSE CHOOSE n \in S : \A m \in S : m <= n

(* C16: streak computation.  current_streak is the number of consecutive   *)
(* days with a completion timestamp counted backwards from today, or from  *)
(* yesterday when today has none, and 0 when neither has one; best_streak  *)
(* is the length of the longest run of such days in the whole history.     *)
StreaksAsStated ==
    req.op = "get_analytics" =>
        LET D == StampedDays(req.user)
            today == req.data.today
            start == IF today \in D THEN today ELSE today - 1
        IN  \A r \in resp.rows :
                /\ r.current_streak = Longest(RunsEndingOn(D, start))
                /\ r.best_streak = Longest(UNION { RunsEndingOn(D, d) : d \in D })

(* C17: enum invariant on stored tasks.  Every stored task has a priority  *)
(* among high, medium, low, none and an energy level among high, medium,   *)
(* low, whatever create, batch upsert, partial update and inbox conversion *)
(* requests were served.                                                   *)
EnumInvariant ==
    \A r \in tasks :
        /\ r.priority # None /\ r.priority[1] \in VALID_PRIORITIES
        /\ r.energy_level # None /\ r.energy_level[1] \in VALID_ENERGY

(* C18: minute-field invariant on stored tasks.  Every stored task's       *)
(* estimated_minutes and actual_minutes are each absent or greater than 0, *)
(* whatever create, batch upsert, partial update, complete and inbox       *)
(* conversion requests were served.                                        *)
MinuteInvariant ==
    \A r \in tasks :
        /\ r.estimated_minutes = None \/ r.estimated_minutes[1] > 0
        /\ r.actual_minutes = None \/ r.actual_minutes[1] > 0

\* The timestamps the normalizer derives from the flags a payload supplies.
Derived(body) ==
    (IF Get(body, "is_completed") \in {Some(TRUE), Some(FALSE)} THEN {"completed_at"} ELSE {})
    \cup (IF Get(body, "is_archived") \in {Some(TRUE), Some(FALSE)} THEN {"archived_at"} ELSE {})

(* C19: partial-update frame.  A PATCH on a task the caller owns leaves    *)
(* every column the payload does not supply as it was and gives every      *)
(* supplied column the supplied value (null clears it), except for the     *)
(* timestamp the normalizer derives from a supplied flag; no other row     *)
(* changes; a PATCH with no field is answered 400 and changes nothing.     *)
PatchFrame ==
    [][ (nops' = nops + 1 /\ req'.op = "update_task") =>
          LET body == req'.data
              hit == Match(tasks, req'.id, req'.user)
          IN  /\ body = EmptyDict => (resp'.status = 400 /\ tasks' = tasks)
              /\ tasks \ hit \subseteq tasks'
              /\ Cardinality(tasks') = Cardinality(tasks)
              /\ \A r \in hit : \E w \in tasks' :
                    /\ w.id = r.id /\ w.user_id = r.user_id
                    /\ \A k \in DOMAIN r \ ({"id", "user_id"} \cup Derived(body)) :
                          w[k] = IF k \in DOMAIN body THEN body[k] ELSE r[k] ]_vars

\* ua cleared the deadline of task 3 and its overdue start is still there.
PatchFrameWitness ==
    /\ req.op = "update_task" /\ req.user = "ua" /\ req.id = 3
    /\ req.data = [deadline |-> None]
    /\ resp.status = 200
    /\ \A r \in resp.rows : r.deadline = None /\ r.overdue_start_date = Stamp0

(* C20: delete-task has no effect when it fails.  Whenever DELETE of one   *)
(* task is answered 404, the task table is the same before and after,      *)
(* the caller's rows whose parent reference is the requested identifier    *)
(* included.                                                               *)
DeleteFailureNoEffect ==
    [][ (nops' = nops + 1 /\ req'.op = "delete_task" /\ resp'.status = 404)
          => tasks' = tasks ]_vars

(* C21: no lost defer under interleaving.  When all the concurrent defer   *)
(* requests name the same task of the same user and all were answered 200, *)
(* the stored defer_count is its initial value plus their number.          *)
NoLostDefer ==
    \A u \in Users, id \in TaskIds :
        (\A p \in Workers : /\ race.body[p].pc = "done" /\ race.body[p].status = 200
                            /\ race.body[p].user = u /\ race.body[p].id = id)
        => \A r \in Match(tasks, id, u), r0 \in Match(SeedTasks, id, u) :
              r0.defer_count # None => r.defer_count = Some(r0.defer_count[1] + MaxSeq)

(* C22: streak ordering.  In every analytics answer current_streak is at   *)
(* least 0 and at most best_streak, and best_streak is 0 exactly when the  *)
(* caller has no task that is completed and has a completion timestamp.    *)
StreakOrdering ==
    req.op = "get_analytics" =>
        \A r \in resp.rows :
            /\ 0 <= r.current_streak /\ r.current_streak <= r.best_streak
            /\ r.best_streak = 0 <=>
                 ~ \E x \in Own(tasks, req.user) :
                      x.is_completed = Some(TRUE) /\ x.completed_at # None

=============================================================================
